---- MODULE Spec2Model ----
(***************************************************************************)
(* Contributor identity reconciliation of the Git harvest plugin           *)
(* (hermes_plugin_git/harvest.py): the history scan feeding the author and *)
(* committer registers, _merge_contributors and _audit_contributors.       *)
(*                                                                         *)
(* NodeRegister and ContributorData (hermes_plugin_git.util) are imported  *)
(* by harvest.py but are not part of the available sources; their          *)
(* behaviour is modelled from the written design (sections 3 and 4.1).     *)
(* The register's configuration (key order, email mapping) is the one      *)
(* harvest.py passes to the constructor.                                   *)
(***************************************************************************)
EXTENDS Integers, Sequences, FiniteSets, TLC

\* ------------------------------------------------------------------ bounds

\* Number of history lines the scan may read.
MaxLog == 3

\* The same for the longer histories of SpecDeep.
MaxDeepLog == 4

\* The same for the short histories of SpecShort.
MaxShortLog == 2

\* Commit pages a provider is asked for before a run is cut off.
MaxRequests == 12

\* ------------------------------------------------------------- input data

None == "None"

\* Emails are sequences of characters so that str.upper is computed.
e_ax == <<"a", "@", "x", ".", "c", "o", "m">>
e_Ax == <<"A", "@", "x", ".", "c", "o", "m">>
e_by == <<"b", "@", "y", ".", "c", "o", "m">>
e_cz == <<"c", "@", "z", ".", "c", "o", "m">>

Emails == {e_ax, e_Ax, e_by, e_cz}

Names == {"Alice", "Alice B.", "Bob"}

\* %aI / %cI timestamps; t1 is 1 and t2 is 2, ordered as ISO-8601 strings are.
Timestamps == {1, 2}

Identities == Names \X Emails \X Timestamps

\* A history line, as the fields line.split(_GIT_SEP) returns.  The last
\* element of stdout.split('\n') is the empty string (one field).
\* The committer of a commit is its author, or the maintainer who applied it.
Maintainer(a) == <<"Bob", e_by, a[3]>>

WellFormedLines ==
    {a \o a : a \in Identities} \cup {a \o Maintainer(a) : a \in Identities}

MalformedLines ==
    {<<"">>,
     <<"Alice", e_ax, 1, "Alice", e_ax>>,
     <<"Alice", "B.", e_ax, 1, "Alice", e_ax, 1>>}

Lines == WellFormedLines \cup MalformedLines

\* ---------------------------------------------------------------- helpers

Contains(seq, x) == \E i \in 1..Len(seq) : seq[i] = x

AppendUnique(seq, x) == IF Contains(seq, x) THEN seq ELSE Append(seq, x)

LowerLetters == <<"a", "b", "c", "d", "e", "f", "g", "h", "i", "j", "k", "l", "m",
                  "n", "o", "p", "q", "r", "s", "t", "u", "v", "w", "x", "y", "z">>

UpperLetters == <<"A", "B", "C", "D", "E", "F", "G", "H", "I", "J", "K", "L", "M",
                  "N", "O", "P", "Q", "R", "S", "T", "U", "V", "W", "X", "Y", "Z">>

UpperOf ==
    [c \in {LowerLetters[i] : i \in 1..Len(LowerLetters)} |->
        UpperLetters[CHOOSE i \in 1..Len(LowerLetters) : LowerLetters[i] = c]]

UpperChar(c) == IF c \in DOMAIN UpperOf THEN UpperOf[c] ELSE c

\* str.upper of the emails of the model, computed once
UpperOfEmail ==
    LET known == {e_ax, e_Ax, e_by, e_cz}
        upper(s) == [i \in 1..Len(s) |-> UpperChar(s[i])]
    IN [s \in known \cup {upper(e) : e \in known} |-> upper(s)]

\* str.upper
str_upper(s) ==
    IF s \in DOMAIN UpperOfEmail
    THEN UpperOfEmail[s]
    ELSE [i \in 1..Len(s) |-> UpperChar(s[i])]

\* ------------------------------------------- register configuration (code)

\* NodeRegister(ContributorData, 'email', 'name', email=str.upper):
\* the keys an update is matched by, in lookup order.
KeyOrderSwapped == <<"name", "email">>

KeyOrderEmailOnly == <<"email">>

KeyOrder == <<"email", "name">>

\* the mapping configured for the key 'email'
EmailMappingIdentity(email) == email

EmailMapping(email) == str_upper(email)

\* a freshly constructed register holds no record
NewRegister == <<>>

\* ------------------------------------------------ NodeRegister (modelled)

\* The value an update is looked up by under `key`.
KeyArg(key, email, name) == IF key = "email" THEN EmailMapping(email) ELSE name

\* Indices of the records whose `key` sequence contains the argument.
Matching(reg, key, email, name) ==
    {i \in 1..Len(reg) : Contains(reg[i][key], KeyArg(key, email, name))}

MinOf(S) == CHOOSE i \in S : \A j \in S : i <= j

\* The first key of KeyOrder that finds a record, 0 if none does.
HitKey(reg, email, name) ==
    LET hits == {k \in 1..Len(KeyOrder) : Matching(reg, KeyOrder[k], email, name) # {}}
    IN IF hits = {} THEN 0 ELSE MinOf(hits)

\* a timestamp of another format than the ISO-8601 one of t1 and t2
t_malformed == 0

\* the two timestamps can be compared: both are of the ISO-8601 format
Comparable(a, b) == a # t_malformed /\ b # t_malformed

\* a failed comparison taking the supplied timestamp for the stored one
LaterOrSupplied(a, b) == IF Comparable(a, b) THEN (IF b > a THEN b ELSE a) ELSE b

\* later of two timestamps, the stored one if they cannot be compared
Later(a, b) == IF Comparable(a, b) /\ b > a THEN b ELSE a

\* ContributorData folded with one more observation.
Fold(rec, email, name, timestamp, role) ==
    [email     |-> AppendUnique(rec.email, EmailMapping(email)),
     name      |-> AppendUnique(rec.name, name),
     timestamp |-> Later(rec.timestamp, timestamp),
     role      |-> IF role = None THEN rec.role ELSE role]

NewRecord(email, name, timestamp, role) ==
    [email     |-> <<EmailMapping(email)>>,
     name      |-> <<name>>,
     timestamp |-> timestamp,
     role      |-> role]

\* NodeRegister.update(email=, name=, timestamp=, role=)
update(reg, email, name, timestamp, role) ==
    LET k == HitKey(reg, email, name)
    IN IF k = 0
       THEN Append(reg, NewRecord(email, name, timestamp, role))
       ELSE LET i == MinOf(Matching(reg, KeyOrder[k], email, name))
            IN [reg EXCEPT ![i] = Fold(reg[i], email, name, timestamp, role)]

\* ------------------------------------------------ harvest.py (functions)

\* the author register updated with the committer of the line as well
author_update_both(reg, line) ==
    update(update(reg, line[2], line[1], line[3], None), line[5], line[4], line[6], None)

\* the author update with the earliest timestamp in place of a_timestamp
author_update_epoch(reg, line) == update(reg, line[2], line[1], 1, None)

\* git_authors.update(email=a_email, name=a_name, timestamp=a_timestamp, role=None)
author_update(reg, line) == update(reg, line[2], line[1], line[3], None)

\* git_committers.update(email=c_email, name=c_name, timestamp=c_timestamp, role=None)
committer_update(reg, line) == update(reg, line[5], line[4], line[6], None)

RECURSIVE InsertAllLast(_, _, _)
\* the same loop taking the last name of each node instead of the first
InsertAllLast(reg, nodes, role) ==
    IF nodes = <<>>
    THEN reg
    ELSE InsertAllLast(update(reg, Head(nodes).email[1],
                              Head(nodes).name[Len(Head(nodes).name)],
                              Head(nodes).timestamp, role),
                       Tail(nodes), role)

RECURSIVE InsertAllLastEmail(_, _, _)
\* the same loop taking the last email of each node instead of the first
InsertAllLastEmail(reg, nodes, role) ==
    IF nodes = <<>>
    THEN reg
    ELSE InsertAllLastEmail(update(reg, Head(nodes).email[Len(Head(nodes).email)],
                                   Head(nodes).name[1], Head(nodes).timestamp, role),
                            Tail(nodes), role)

RECURSIVE InsertAll(_, _, _)
\* for node in register._all: git_contributors.update(email=node.email[0],
\*     name=node.name[0], timestamp=node.timestamp, role=role)
InsertAll(reg, nodes, role) ==
    IF nodes = <<>>
    THEN reg
    ELSE InsertAll(update(reg, Head(nodes).email[1], Head(nodes).name[1],
                          Head(nodes).timestamp, role),
                   Tail(nodes), role)

\* the same loops with the committers inserted before the authors
merge_committers_first(authors, committers) ==
    InsertAll(InsertAll(NewRegister, committers, "git committer"), authors, "git author")

\* the merge in place: the committers inserted into the author register
merge_into_authors(authors, committers) ==
    InsertAll(authors, committers, "git committer")

\* GitHarvestPlugin._merge_contributors
merge_contributors(authors, committers) ==
    InsertAll(InsertAll(NewRegister, authors, "git author"), committers, "git committer")

\* str(contributor): the first name and the first email
str_contributor(c) == <<c.name[1], c.email[1]>>

RECURSIVE Join(_, _)
\* sep.join(parts), as the sequence of its pieces
Join(sep, parts) ==
    IF Len(parts) <= 1
    THEN parts
    ELSE <<Head(parts), sep>> \o Join(sep, Tail(parts))

Slice1(seq) == Tail(seq)

LogRecord(level, msg, args) == [level |-> level, msg |-> msg, args |-> args]

\* the audit_log.info calls of one unmapped contributor
ContributorReport(c) ==
    (IF Len(c.email) > 1
     THEN <<LogRecord("info", "has alternate email",
                      <<str_contributor(c), Join(<<",", " ">>, Slice1(c.email))>>)>>
     ELSE <<>>)
    \o
    (IF Len(c.name) > 1
     THEN <<LogRecord("info", "has alternate names",
                      <<str_contributor(c), Join(", ", Slice1(c.name))>>)>>
     ELSE <<>>)

RECURSIVE Reports(_)
Reports(cs) == IF cs = <<>> THEN <<>> ELSE ContributorReport(Head(cs)) \o Reports(Tail(cs))

\* the list comprehension's condition with `and` for `or`
IsUnmappedBoth(a) == Len(a.email) > 1 /\ Len(a.name) > 1

IsUnmapped(a) == Len(a.email) > 1 \/ Len(a.name) > 1

\* the same reports without the `if unmapped_contributors:` guard
audit_unguarded(contributors) ==
    <<LogRecord("warning", "You have unmapped contributors in your Git history.", <<>>)>>
    \o Reports(SelectSeq(contributors, IsUnmapped))
    \o <<LogRecord("warning", "", <<>>)>>

\* GitHarvestPlugin._audit_contributors: the records it hands to audit_log
\* (the Markdown fence of the last two messages is written as the word fence)
audit_contributors(contributors) ==
    LET unmapped_contributors == SelectSeq(contributors, IsUnmapped)
    IN IF unmapped_contributors # <<>>
       THEN <<LogRecord("warning", "You have unmapped contributors in your Git history.", <<>>)>>
            \o Reports(unmapped_contributors)
            \o <<LogRecord("warning", "", <<>>),
                 LogRecord("info", "Please consider adding a .maillog file", <<>>),
                 LogRecord("info", "", <<>>),
                 LogRecord("info", "fence .mailmap", <<>>),
                 LogRecord("info", "fence", <<>>)>>
       ELSE <<>>

\* ------------------------------------------------------------------ state

VARIABLES
    pc,               \* position in GitHarvestPlugin: construction and __call__
    raised,           \* the exception that left the plugin, None if none
    nlines,           \* lines of git_log consumed by the for loop
    git_authors,      \* NodeRegister._all of the author register
    git_committers,   \* NodeRegister._all of the committer register
    git_contributors, \* the register _merge_contributors returns
    audit_log,        \* records handed to the audit logger
    seen              \* emails (mapped) and names of the identities read from git_log

\* GitHubLabHarvestPlugin.__call__ (hermes_plugin_githublab/harvest.py)
VARIABLES
    hub_pc,           \* position in GitHubLabHarvestPlugin.__call__
    arg_path,         \* command.args.path as the harvest command passed it
    path,             \* the local variable path
    token,            \* self.token
    provider,         \* the provider whose _fetch_*_metadata was called
    requests,         \* requests sent to a provider
    platform,         \* first component of what _fetch_repo_metadata returned
    metadata,         \* its second component
    hub_raised,       \* the exception that left __call__, None if none
    returned          \* the pair __call__ returned, None if it has not

hubvars == <<hub_pc, arg_path, path, token, provider, requests, platform, metadata,
             hub_raised, returned>>

\* get_contributors_from_repo (github_utils.py and codemeta_builder.py)
VARIABLES
    page_pc,          \* position in get_contributors_from_repo
    module,           \* the module whose get_contributors_from_repo runs
    page,             \* the local variable page
    all_commits,      \* the local variable all_commits
    page_requests,    \* commit pages requested
    contributors      \* the list returned, None before the return

pagevars == <<page_pc, module, page, all_commits, page_requests, contributors>>

gitvars == <<pc, raised, nlines, git_authors, git_committers, git_contributors, audit_log, seen>>

vars == <<gitvars, hubvars, pagevars>>

NoneSeen == [email |-> {}, name |-> {}]

See(s, email, name) ==
    [email |-> s.email \cup {str_upper(email)}, name |-> s.name \cup {name}]

Init ==
    /\ pc = "construct"
    /\ raised = None
    /\ nlines = 0
    /\ git_authors = NewRegister
    /\ git_committers = NewRegister
    /\ git_contributors = NewRegister
    /\ audit_log = <<>>
    /\ seen = [a |-> NoneSeen, c |-> NoneSeen]
    /\ hub_pc = "idle" /\ arg_path = None /\ path = None /\ token = None
    /\ provider = None /\ requests = 0 /\ platform = None /\ metadata = None
    /\ hub_raised = None /\ returned = None
    /\ page_pc = "idle" /\ module = None /\ page = 0 /\ all_commits = <<>>
    /\ page_requests = 0 /\ contributors = None

\* GitHarvestPlugin.__init__: shutil.which('git')
Construct(git_exe) ==
    /\ pc = "construct"
    /\ IF git_exe
       THEN pc' = "run_git" /\ raised' = raised
       ELSE pc' = "failed" /\ raised' = "RuntimeError"
    /\ UNCHANGED <<nlines, git_authors, git_committers, git_contributors, audit_log, seen>>
    /\ UNCHANGED <<hubvars, pagevars>>

\* __call__ on a local path: git rev-parse and git log through _run_git,
\* which raises RuntimeError on a non-zero return code
RunGit(returncode) ==
    /\ pc = "run_git"
    /\ IF returncode # 0
       THEN pc' = "failed" /\ raised' = "RuntimeError"
       ELSE pc' = "scan" /\ raised' = raised
    /\ UNCHANGED <<nlines, git_authors, git_committers, git_contributors, audit_log, seen>>
    /\ UNCHANGED <<hubvars, pagevars>>

\* the author-update call with the name of the committer instead
ScanLineWrongName(line, bound) ==
    /\ pc = "scan"
    /\ nlines < bound
    /\ nlines' = nlines + 1
    /\ IF Len(line) # 6
       THEN UNCHANGED <<git_authors, git_committers, seen>>
       ELSE /\ git_authors' = update(git_authors, line[2], line[4], line[3], None)
            /\ git_committers' = update(git_committers, line[5], line[4], line[6], None)
            /\ seen' = [a |-> See(seen.a, line[2], line[1]),
                        c |-> See(seen.c, line[5], line[4])]
    /\ UNCHANGED <<pc, raised, git_contributors, audit_log>>
    /\ UNCHANGED <<hubvars, pagevars>>

\* the loop with `break` for `continue`: a malformed line ends the scan
ScanLineBreak(line, bound) ==
    /\ pc = "scan"
    /\ nlines < bound
    /\ IF Len(line) # 6
       THEN nlines' = bound /\ UNCHANGED <<git_authors, git_committers, seen>>
       ELSE /\ nlines' = nlines + 1
            /\ git_authors' = author_update(git_authors, line)
            /\ git_committers' = committer_update(git_committers, line)
            /\ seen' = [a |-> See(seen.a, line[2], line[1]),
                        c |-> See(seen.c, line[5], line[4])]
    /\ UNCHANGED <<pc, raised, git_contributors, audit_log>>
    /\ UNCHANGED <<hubvars, pagevars>>

\* one iteration of `for line in git_log`, of a log of at most `bound` lines
ScanLine(line, bound) ==
    /\ pc = "scan"
    /\ nlines < bound
    /\ nlines' = nlines + 1
    /\ IF Len(line) # 6
       THEN UNCHANGED <<git_authors, git_committers, seen>>
       ELSE /\ git_authors' = author_update(git_authors, line)
            /\ git_committers' = committer_update(git_committers, line)
            /\ seen' = [a |-> See(seen.a, line[2], line[1]),
                        c |-> See(seen.c, line[5], line[4])]
    /\ UNCHANGED <<pc, raised, git_contributors, audit_log>>
    /\ UNCHANGED <<hubvars, pagevars>>

\* git_log is exhausted: git_contributors = self._merge_contributors(...)
Merge ==
    /\ pc = "scan"
    /\ pc' = "audit"
    /\ git_contributors' = merge_contributors(git_authors, git_committers)
    /\ UNCHANGED <<raised, nlines, git_authors, git_committers, audit_log, seen>>
    /\ UNCHANGED <<hubvars, pagevars>>

\* self._audit_contributors(git_contributors, logging.getLogger('audit.git'))
Audit ==
    /\ pc = "audit"
    /\ pc' = "return"
    /\ audit_log' = audit_log \o audit_contributors(git_contributors)
    /\ UNCHANGED <<raised, nlines, git_authors, git_committers, git_contributors, seen>>
    /\ UNCHANGED <<hubvars, pagevars>>

\* return data, {"gitBranch": git_branch}
Return ==
    /\ pc = "return"
    /\ pc' = "done"
    /\ UNCHANGED <<raised, nlines, git_authors, git_committers, git_contributors, audit_log, seen>>
    /\ UNCHANGED <<hubvars, pagevars>>

Next ==
    \/ \E git_exe \in BOOLEAN : Construct(git_exe)
    \/ \E returncode \in {0, 128} : RunGit(returncode)
    \/ \E line \in Lines : ScanLine(line, MaxLog)
    \/ Merge
    \/ Audit
    \/ Return

Spec == Init /\ [][Next]_vars

\* The same plugin reading histories of up to MaxDeepLog lines.
NextDeep ==
    \/ \E git_exe \in BOOLEAN : Construct(git_exe)
    \/ \E returncode \in {0, 128} : RunGit(returncode)
    \/ \E line \in Lines : ScanLine(line, MaxDeepLog)
    \/ Merge
    \/ Audit
    \/ Return

SpecDeep == Init /\ [][NextDeep]_vars

\* The same plugin reading histories of up to MaxShortLog lines.
NextShort ==
    \/ \E git_exe \in BOOLEAN : Construct(git_exe)
    \/ \E returncode \in {0, 128} : RunGit(returncode)
    \/ \E line \in Lines : ScanLine(line, MaxShortLog)
    \/ Merge
    \/ Audit
    \/ Return

SpecShort == Init /\ [][NextShort]_vars

\* Histories of one person under two names, with well-formed and malformed
\* timestamps.
MixedIdentities ==
    {<<name, e_ax, timestamp>> :
        name \in {"Alice", "Alice B."}, timestamp \in Timestamps \cup {t_malformed}}

MixedLines == {a \o a : a \in MixedIdentities}

\* The same plugin reading such histories.
NextMixed ==
    \/ \E git_exe \in BOOLEAN : Construct(git_exe)
    \/ \E returncode \in {0, 128} : RunGit(returncode)
    \/ \E line \in MixedLines : ScanLine(line, MaxLog)
    \/ Merge
    \/ Audit
    \/ Return

SpecMixed == Init /\ [][NextMixed]_vars

\* ------------------------------- hermes_plugin_githublab/harvest.py (model)

\* Paths are sequences of characters so that startswith, replace and
\* urlparse are computed.
s_http == <<"h", "t", "t", "p">>
s_git_at == <<"g", "i", "t", "@">>
s_github_com == <<"g", "i", "t", "h", "u", "b", ".", "c", "o", "m">>
s_gitlab_com == <<"g", "i", "t", "l", "a", "b", ".", "c", "o", "m">>
s_owner_repo == <<"/", "o", "/", "r">>

\* the paths the harvest command is run with
p_https_github == s_http \o <<"s", ":", "/", "/">> \o s_github_com \o s_owner_repo
p_http_github == s_http \o <<":", "/", "/">> \o s_github_com \o s_owner_repo
p_https_gitlab == s_http \o <<"s", ":", "/", "/">> \o s_gitlab_com \o s_owner_repo
p_one_slash == s_http \o <<"s", ":", "/">> \o s_github_com \o s_owner_repo
p_backslash == s_http \o <<"s", ":", "\\", "\\">> \o s_github_com \o <<"\\", "o", "\\", "r">>
p_mixed_case == s_http \o <<"s", ":", "/", "/", "G", "i", "t", "H", "u", "b", ".", "c", "o", "m">>
                   \o s_owner_repo
p_other_host == s_http \o <<"s", ":", "/", "/", "e", "x", ".", "o", "r", "g">> \o s_owner_repo
p_lookalike == s_http \o <<"s", ":", "/", "/">> \o s_gitlab_com \o <<".", "e", "x", ".", "o", "r", "g">>
                  \o s_owner_repo
p_ssh_github == s_git_at \o s_github_com \o <<":", "o", "/", "r">>
p_ssh_gitlab == s_git_at \o s_gitlab_com \o <<":", "o", "/", "r">>
p_local == <<".", "/", "r">>
p_empty == <<>>

Paths == {p_https_github, p_http_github, p_https_gitlab, p_one_slash, p_backslash,
          p_mixed_case, p_other_host, p_lookalike, p_ssh_github, p_ssh_gitlab, p_local, p_empty}

\* self._load_token(): the token of hermes.toml, None if it cannot be loaded
Tokens == {None, "token"}

\* str.startswith
startswith(s, prefix) ==
    Len(prefix) <= Len(s) /\ \A k \in 1..Len(prefix) : s[k] = prefix[k]

\* `sub in s` for strings
str_in(sub, s) ==
    \E i \in 1..(Len(s) + 1) :
        i + Len(sub) - 1 <= Len(s) /\ SubSeq(s, i, i + Len(sub) - 1) = sub

\* s.replace("\\", "/")
replace_backslash(s) == [i \in 1..Len(s) |-> IF s[i] = "\\" THEN "/" ELSE s[i]]

LowerChar(c) ==
    IF \E i \in 1..Len(UpperLetters) : UpperLetters[i] = c
    THEN LowerLetters[CHOOSE i \in 1..Len(UpperLetters) : UpperLetters[i] = c]
    ELSE c

\* str.lower
str_lower(s) == [i \in 1..Len(s) |-> LowerChar(s[i])]

\* the index of the first character of `s` that is in `chars`, 0 if none is
FirstOf(s, chars) ==
    LET at == {i \in 1..Len(s) : s[i] \in chars}
    IN IF at = {} THEN 0 ELSE CHOOSE i \in at : \A j \in at : i <= j

\* urllib.parse: the characters of a scheme
scheme_chars ==
    {LowerLetters[i] : i \in 1..Len(LowerLetters)}
    \cup {UpperLetters[i] : i \in 1..Len(UpperLetters)}
    \cup {"0", "1", "2", "3", "4", "5", "6", "7", "8", "9", "+", "-", "."}

\* urlsplit: the url after its scheme, the whole url if it has none (the text
\* before the first colon is a scheme if it is not empty and of scheme_chars)
after_scheme(url) ==
    LET i == FirstOf(url, {":"})
    IN IF i > 1 /\ \A k \in 1..(i - 1) : url[k] \in scheme_chars
       THEN SubSeq(url, i + 1, Len(url))
       ELSE url

\* urlparse(url).netloc: what follows "//" up to the next "/", "?" or "#"
netloc(url) ==
    LET rest == after_scheme(url)
    IN IF startswith(rest, <<"/", "/">>)
       THEN LET tail == SubSeq(rest, 3, Len(rest))
                end == FirstOf(tail, {"/", "?", "#"})
            IN IF end = 0 THEN tail ELSE SubSeq(tail, 1, end - 1)
       ELSE <<>>

\* _normalize_url, once the prefix is accepted
normalize_url(p) ==
    IF startswith(p, s_http \o <<"s", ":", "/">>)
       /\ ~startswith(p, s_http \o <<"s", ":", "/", "/">>)
    THEN s_http \o <<"s", ":", "/", "/">> \o SubSeq(p, 8, Len(p))
    ELSE p

\* 'github.com' in host
host_has(name, host) == str_in(name, host)

\* self.token = self._load_token(); path = str(...).replace("\\", "/")
HubCall(p, tok) ==
    /\ hub_pc = "idle"
    /\ hub_pc' = "normalize"
    /\ token' = tok
    /\ arg_path' = p
    /\ path' = replace_backslash(p)
    /\ UNCHANGED <<provider, requests, platform, metadata, hub_raised, returned>>
    /\ UNCHANGED <<gitvars, pagevars>>

\* path = self._normalize_url(path)
HubNormalizeUrl ==
    /\ hub_pc = "normalize"
    /\ IF ~(startswith(path, s_http) \/ startswith(path, s_git_at))
       THEN hub_pc' = "failed" /\ hub_raised' = "ValueError" /\ path' = path
       ELSE hub_pc' = "fetch" /\ hub_raised' = hub_raised /\ path' = normalize_url(path)
    /\ UNCHANGED <<arg_path, token, provider, requests, platform, metadata, returned>>
    /\ UNCHANGED <<gitvars, pagevars>>

\* _fetch_repo_metadata up to the call of a provider's fetch
HubFetchRepoMetadata ==
    /\ hub_pc = "fetch"
    /\ LET host == str_lower(netloc(path))
       IN IF host_has(s_github_com, host)
          THEN hub_pc' = "github" /\ provider' = "github" /\ hub_raised' = hub_raised
          ELSE IF host_has(s_gitlab_com, host)
          THEN hub_pc' = "gitlab" /\ provider' = "gitlab" /\ hub_raised' = hub_raised
          ELSE hub_pc' = "failed" /\ provider' = provider /\ hub_raised' = "ValueError"
    /\ UNCHANGED <<arg_path, path, token, requests, platform, metadata, returned>>
    /\ UNCHANGED <<gitvars, pagevars>>

\* _fetch_github_metadata: one request, raise_for_status
HubFetchGithub(status_code) ==
    /\ hub_pc = "github"
    /\ requests' = requests + 1
    /\ IF status_code # 200
       THEN /\ hub_pc' = "failed" /\ hub_raised' = "HTTPError"
            /\ UNCHANGED <<platform, metadata>>
       ELSE /\ hub_pc' = "fetched" /\ hub_raised' = hub_raised
            /\ platform' = "github" /\ metadata' = "data"
    /\ UNCHANGED <<arg_path, path, token, provider, returned>>
    /\ UNCHANGED <<gitvars, pagevars>>

\* _fetch_gitlab_metadata: the token is required before the project is asked
\* for; get_gitlab_project raises ValueError if the project is not found
HubFetchGitlab(found) ==
    /\ hub_pc = "gitlab"
    /\ IF token = None
       THEN /\ hub_pc' = "failed" /\ hub_raised' = "ValueError"
            /\ UNCHANGED <<requests, platform, metadata>>
       ELSE /\ requests' = requests + 1
            /\ IF found
               THEN /\ hub_pc' = "fetched" /\ hub_raised' = hub_raised
                    /\ platform' = "gitlab" /\ metadata' = "metadata"
               ELSE /\ hub_pc' = "failed" /\ hub_raised' = "ValueError"
                    /\ UNCHANGED <<platform, metadata>>
    /\ UNCHANGED <<arg_path, path, token, provider, returned>>
    /\ UNCHANGED <<gitvars, pagevars>>

\* return codemeta, {} / return metadata, {}
HubReturn ==
    /\ hub_pc = "fetched"
    /\ hub_pc' = "done"
    /\ returned' = IF platform = "github" /\ metadata # None
                   THEN <<"codemeta", {}>>
                   ELSE <<metadata, {}>>
    /\ UNCHANGED <<arg_path, path, token, provider, requests, platform, metadata, hub_raised>>
    /\ UNCHANGED <<gitvars, pagevars>>

\* A harvest with both plugins: the git plugin is constructed, the hosted
\* plugin is called.
NextHub ==
    \/ \E git_exe \in BOOLEAN : Construct(git_exe)
    \/ \E p \in Paths : \E tok \in Tokens : HubCall(p, tok)
    \/ HubNormalizeUrl
    \/ HubFetchRepoMetadata
    \/ \E status_code \in {200, 404} : HubFetchGithub(status_code)
    \/ \E found \in BOOLEAN : HubFetchGitlab(found)
    \/ HubReturn

SpecHub == Init /\ [][NextHub]_vars

\* ------------------------------------ get_contributors_from_repo (model)

\* max_pages of github_utils.get_contributors_from_repo
max_pages == 10

\* the two modules that define get_contributors_from_repo
Modules == {"github_utils", "codemeta_builder"}

\* commits of a page: the author name and email of commit["commit"]["author"]
c_bob == [name |-> <<"B", "o", "b">>, email |-> <<"B", "@", "y">>]
c_al == [name |-> <<"a", "l">>, email |-> <<"a", "@", "x">>]

\* what response.json() gives: a list of commits
Pages == {<<>>, <<c_bob>>, <<c_al>>}

\* a response: its status code, whether response.json() decodes it (raises no
\* ValueError), and what it decodes to
Responses ==
    {[status_code |-> 200, decodes |-> TRUE, json |-> j] : j \in Pages}
    \cup {[status_code |-> 200, decodes |-> FALSE, json |-> <<>>],
          [status_code |-> 404, decodes |-> FALSE, json |-> <<>>]}

\* position of a letter in the alphabet, 0 for any other character
Rank(c) ==
    IF \E i \in 1..Len(LowerLetters) : LowerLetters[i] = c
    THEN CHOOSE i \in 1..Len(LowerLetters) : LowerLetters[i] = c
    ELSE 0

RECURSIVE StrLess(_, _)
\* s < t for strings of lower-case letters
StrLess(s, t) ==
    IF t = <<>> THEN FALSE
    ELSE IF s = <<>> THEN TRUE
    ELSE IF Head(s) # Head(t) THEN Rank(Head(s)) < Rank(Head(t))
    ELSE StrLess(Tail(s), Tail(t))

RECURSIVE InsertSorted(_, _)
\* `person` put into the sorted `people` after every entry not greater
InsertSorted(people, person) ==
    IF people = <<>> THEN <<person>>
    ELSE IF StrLess(str_lower(person.givenName), str_lower(Head(people).givenName))
    THEN <<person>> \o people
    ELSE <<Head(people)>> \o InsertSorted(Tail(people), person)

RECURSIVE Sorted(_)
\* sorted(metadata, key=lambda x: x['givenName'].lower())
Sorted(people) ==
    IF people = <<>> THEN <<>>
    ELSE InsertSorted(Sorted(SubSeq(people, 1, Len(people) - 1)), people[Len(people)])

RECURSIVE Persons(_, _)
\* the loop over all_commits: one person per email, in lower case, not yet
\* seen (the names of the model are one word of letters, which the cleaning
\* and the split leave as it is)
Persons(commits, seen_emails) ==
    IF commits = <<>> THEN <<>>
    ELSE LET contributor_email == str_lower(Head(commits).email)
         IN IF contributor_email \in seen_emails
            THEN Persons(Tail(commits), seen_emails)
            ELSE <<[givenName |-> Head(commits).name, familyName |-> <<>>,
                    email |-> contributor_email]>>
                 \o Persons(Tail(commits), seen_emails \cup {contributor_email})

\* the `while` condition of the commit-page loop in module `m`
LoopCondition(m, p) == IF m = "github_utils" THEN p <= max_pages ELSE TRUE

\* get_contributors_from_repo(url) up to the loop: owner and repo are taken
\* from the url; a url without them returns [] in codemeta_builder and raises
\* ValueError (parse_repo_url) in github_utils
PageStart(m, url_ok) ==
    /\ page_pc = "idle"
    /\ module' = m
    /\ IF url_ok
       THEN page_pc' = "loop" /\ page' = 1 /\ contributors' = contributors
       ELSE IF m = "codemeta_builder"
       THEN page_pc' = "returned" /\ page' = page /\ contributors' = <<>>
       ELSE page_pc' = "failed" /\ page' = page /\ contributors' = contributors
    /\ UNCHANGED <<all_commits, page_requests>>
    /\ UNCHANGED <<gitvars, hubvars>>

\* one iteration of the loop: the page is requested and looked at
PageRequest(response) ==
    /\ page_pc = "loop"
    /\ LoopCondition(module, page)
    /\ page_requests < MaxRequests
    /\ page_requests' = page_requests + 1
    /\ IF response.status_code # 200 \/ ~response.decodes
       THEN /\ page_pc' = "returned" /\ contributors' = <<>>
            /\ UNCHANGED <<page, all_commits>>
       ELSE IF response.json = <<>>
       THEN /\ page_pc' = "build"
            /\ UNCHANGED <<page, all_commits, contributors>>
       ELSE /\ all_commits' = all_commits \o response.json
            /\ page' = page + 1
            /\ UNCHANGED <<page_pc, contributors>>
    /\ UNCHANGED module
    /\ UNCHANGED <<gitvars, hubvars>>

\* the `while` condition is false
PageLoopEnd ==
    /\ page_pc = "loop"
    /\ ~LoopCondition(module, page)
    /\ page_pc' = "build"
    /\ UNCHANGED <<module, page, all_commits, page_requests, contributors>>
    /\ UNCHANGED <<gitvars, hubvars>>

\* the contributors are built from all_commits and returned
PageBuild ==
    /\ page_pc = "build"
    /\ page_pc' = "returned"
    /\ contributors' = Sorted(Persons(all_commits, {}))
    /\ UNCHANGED <<module, page, all_commits, page_requests>>
    /\ UNCHANGED <<gitvars, hubvars>>

NextPages ==
    \/ \E m \in Modules : \E url_ok \in BOOLEAN : PageStart(m, url_ok)
    \/ \E response \in Responses : PageRequest(response)
    \/ PageLoopEnd
    \/ PageBuild

SpecPages == Init /\ [][NextPages]_vars

\* ----------------------------------------------------------------- claims

\* the three registers of a run
Registers == <<git_authors, git_committers, git_contributors>>

\* the records of `reg` whose emails hold a value equal to `m` once case-folded
Holders(reg, m) ==
    {i \in 1..Len(reg) : \E k \in 1..Len(reg[i].email) : str_upper(reg[i].email[k]) = m}

\* C1: in the author, the committer and the reconciled register, whatever
\* updates built them, no case-folded email is held by more than one record.
C1_NoSharedEmail ==
    \A r \in 1..Len(Registers) :
        \A e \in Emails : Cardinality(Holders(Registers[r], str_upper(e))) <= 1

\* C1 witness: a register of two persons, one of whom was updated again
\* under a known email (and so carries a second name).
C1_Witness ==
    /\ Len(git_authors) >= 2
    /\ \E i \in 1..Len(git_authors) : Len(git_authors[i].name) >= 2
    /\ Len(git_contributors) >= 2

\* no two positions of `seq` hold the same value
NoRepeat(seq) == \A i, j \in 1..Len(seq) : seq[i] = seq[j] => i = j

\* C10: in every register, no record's emails hold two entries that are equal
\* after case-folding, and no record's names hold the same name twice.
C10_NoRepeatInRecord ==
    \A r \in 1..Len(Registers) :
        \A i \in 1..Len(Registers[r]) :
            /\ NoRepeat([k \in 1..Len(Registers[r][i].email) |->
                            str_upper(Registers[r][i].email[k])])
            /\ NoRepeat(Registers[r][i].name)

\* C10 witness: a record that was updated under its email at least twice
\* (it has two names) holds that email once, and a further update under
\* either spelling "a@x.com" or "A@x.com" leaves it a single entry.
C10_Witness ==
    \E i \in 1..Len(git_authors) :
        /\ git_authors[i].email = <<str_upper(e_ax)>>
        /\ Len(git_authors[i].name) >= 2
        /\ \A e \in {e_ax, e_Ax} :
              update(git_authors, e, git_authors[i].name[1], 1, None)[i].email
                  = <<str_upper(e_ax)>>

\* _merge_contributors has returned
Merged == pc \in {"audit", "return", "done"}

\* the author record `a` and some committer record have the same first email
\* and the same first name
InBoth(a) ==
    \E c \in 1..Len(git_committers) :
        /\ git_committers[c].email[1] = a.email[1]
        /\ git_committers[c].name[1] = a.name[1]

\* neither the first email nor the first name of the author record `a` is
\* the first email or first name of a committer record
OnlyAuthor(a) ==
    \A c \in 1..Len(git_committers) :
        /\ git_committers[c].email[1] # a.email[1]
        /\ git_committers[c].name[1] # a.name[1]

\* the one reconciled record holding the first email of `a` has role `role`
EndsAs(a, role) ==
    LET H == Holders(git_contributors, str_upper(a.email[1]))
    IN /\ Cardinality(H) = 1
       /\ \A i \in H : /\ git_contributors[i].role = role
                       /\ Contains(git_contributors[i].name, a.name[1])

\* C2: merge inserts every author record before any committer record (the
\* reconciled register starts with the author records' identities, in order)
\* and the role of the last insertion wins: a person whose first email and
\* first name head both an author and a committer record ends as one record of
\* role "git committer"; a person no committer record names ends as "git author".
C2_RolePrecedence ==
    Merged =>
        \A a \in 1..Len(git_authors) :
            /\ a <= Len(git_contributors)
            /\ git_contributors[a].email[1] = git_authors[a].email[1]
            /\ git_contributors[a].name[1] = git_authors[a].name[1]
            /\ InBoth(git_authors[a]) => EndsAs(git_authors[a], "git committer")
            /\ OnlyAuthor(git_authors[a]) => EndsAs(git_authors[a], "git author")

\* C2 witness: a merge of a person who is both, a person who is author only
\* and a person who is committer only.
C2_Witness ==
    /\ Merged
    /\ \E a \in 1..Len(git_authors) : InBoth(git_authors[a])
    /\ \E a \in 1..Len(git_authors) : OnlyAuthor(git_authors[a])
    /\ Len(git_contributors) > Len(git_authors)

\* the history of the end-to-end scenario: t1 is 1, t2 is 2
ScenarioLog ==
    << <<"Alice", e_ax, 1, "Alice", e_ax, 1>>,
       <<"Alice B.", e_ax, 2, "Bob", e_by, 2>> >>

\* the run has read a two-line history that left the registers the scenario's
\* history leaves, and has merged and audited them
ScenarioDone ==
    /\ pc = "done"
    /\ nlines = 2
    /\ git_authors = author_update(author_update(NewRegister, ScenarioLog[1]), ScenarioLog[2])
    /\ git_committers =
           committer_update(committer_update(NewRegister, ScenarioLog[1]), ScenarioLog[2])

\* the audit log holds a report about the record `c`
Reported(c) ==
    \E k \in 1..Len(audit_log) :
        /\ Len(audit_log[k].args) = 2
        /\ audit_log[k].args[1] = <<c.name[1], c.email[1]>>

\* C4 as stated: the scenario ends with two records, the first (a@x.com,
\* "Alice") with names ["Alice", "Alice B."], role "git committer" and reported
\* by the audit, the second (b@y.com, "Bob"), "git committer", not reported.
C4_ScenarioAsStated ==
    ScenarioDone =>
        /\ Len(git_contributors) = 2
        /\ str_upper(git_contributors[1].email[1]) = str_upper(e_ax)
        /\ git_contributors[1].name = <<"Alice", "Alice B.">>
        /\ git_contributors[1].role = "git committer"
        /\ Reported(git_contributors[1])
        /\ str_upper(git_contributors[2].email[1]) = str_upper(e_by)
        /\ git_contributors[2].name[1] = "Bob"
        /\ git_contributors[2].role = "git committer"
        /\ ~Reported(git_contributors[2])

\* C4 (amended): the scenario ends with two records, the first holding only
\* the case-folded a@x.com and only the name "Alice" (merge inserts the first
\* name of the author record alone), role "git committer"; the second holding
\* the case-folded b@y.com and "Bob", role "git committer"; neither is
\* reported and the audit log stays empty.
C4_Scenario ==
    ScenarioDone =>
        /\ git_contributors =
               << [email |-> <<str_upper(e_ax)>>, name |-> <<"Alice">>,
                   timestamp |-> 2, role |-> "git committer"],
                  [email |-> <<str_upper(e_by)>>, name |-> <<"Bob">>,
                   timestamp |-> 2, role |-> "git committer"] >>
        /\ audit_log = <<>>

\* C4 witness: the scenario has run to its end.
C4_Witness == ScenarioDone

IsPrefix(p, q) == Len(p) <= Len(q) /\ \A k \in 1..Len(p) : p[k] = q[k]

\* `reg` holds each case-folded email of `s` in exactly one record, each name
\* of `s` in some record, no email or name beside those, and no record twice
Reflects(reg, s) ==
    /\ \A m \in s.email : Cardinality(Holders(reg, m)) = 1
    /\ \A n \in s.name : \E i \in 1..Len(reg) : Contains(reg[i].name, n)
    /\ \A i \in 1..Len(reg) :
          /\ \A k \in 1..Len(reg[i].email) : str_upper(reg[i].email[k]) \in s.email
          /\ \A k \in 1..Len(reg[i].name) : reg[i].name[k] \in s.name
          /\ \A j \in 1..Len(reg) : reg[i] = reg[j] => i = j

\* from `reg` to `next` records were only appended, and emails and names only
\* appended to the records there were
Grown(reg, next) ==
    /\ Len(reg) <= Len(next)
    /\ \A i \in 1..Len(reg) :
          /\ IsPrefix(reg[i].email, next[i].email)
          /\ IsPrefix(reg[i].name, next[i].name)

\* what merge passes to update: the first email and first name of every
\* author and committer record
Inserted ==
    LET nodes == git_authors \o git_committers
    IN [email |-> {str_upper(nodes[i].email[1]) : i \in 1..Len(nodes)},
        name  |-> {nodes[i].name[1] : i \in 1..Len(nodes)}]

\* C5: after any sequence of updates a register yields each person once:
\* every case-folded email read from the history is in exactly one record of
\* its register, every name read is in a record, nothing else is, no record
\* occurs twice (the same for the reconciled register and what merge inserts);
\* and every step only appends records, emails and names, so that records
\* stay in creation order and emails and names in the order they were
\* first seen.
C5_EachPersonOnce ==
    /\ [](/\ Reflects(git_authors, seen.a)
          /\ Reflects(git_committers, seen.c)
          /\ Merged => Reflects(git_contributors, Inserted))
    /\ [][/\ Grown(git_authors, git_authors')
          /\ Grown(git_committers, git_committers')
          /\ Grown(git_contributors, git_contributors')]_vars

\* C5 witness: three updates under three emails left a register of two
\* records, the first of which gathered its second email after the second
\* record was created.
C5_Witness ==
    /\ nlines = 3
    /\ Cardinality(seen.a.email) = 3
    /\ Len(git_authors) = 2
    /\ git_authors[1].email = <<str_upper(e_ax), str_upper(e_cz)>>
    /\ git_authors[2].email = <<str_upper(e_by)>>

\* `next` is `reg` with the case-folded `email` appended to the emails of one
\* record that holds `name`, and nothing else changed but that record's
\* timestamp
Attached(reg, next, email, name) ==
    /\ Len(next) = Len(reg)
    /\ \E i \in 1..Len(reg) :
          /\ Contains(reg[i].name, name)
          /\ next[i].email = Append(reg[i].email, str_upper(email))
          /\ next[i].name = reg[i].name
          /\ \A j \in 1..Len(reg) : j # i => next[j] = reg[j]

\* every update of `reg` whose email no record of `reg` holds and whose name
\* some record holds attaches the email by the name
AttachesByName(reg) ==
    \A email \in Emails :
        Holders(reg, str_upper(email)) = {} =>
            \A name \in Names :
                (\E i \in 1..Len(reg) : Contains(reg[i].name, name)) =>
                    \A timestamp \in Timestamps :
                        Attached(reg, update(reg, email, name, timestamp, None), email, name)

\* C6: wherever the scan stands, an update whose email no record holds but
\* whose name some record holds creates no record and appends the email to
\* the end of the emails of a record holding the name; so (e1,n1) then
\* (e2,n1) leave one record with emails [e1, e2].
C6_NameMatchAttaches ==
    pc = "scan" => AttachesByName(git_authors) /\ AttachesByName(git_committers)

\* C6 witness: two lines by "Alice", under a@x.com and then under c@z.com,
\* left one author record with both emails in that order.
C6_Witness ==
    /\ nlines = 2
    /\ Len(git_authors) = 1
    /\ git_authors[1].email = <<str_upper(e_ax), str_upper(e_cz)>>
    /\ git_authors[1].name = <<"Alice">>

\* _audit_contributors has returned
Audited == pc \in {"return", "done"}

\* the positions of the audit log reporting alternates of kind `msg`
ReportsOf(msg) ==
    {k \in 1..Len(audit_log) : audit_log[k].level = "info" /\ audit_log[k].msg = msg}

\* the audit log reports `alternates` (joined by ", ") for the record `c` under
\* `msg` once if there are any, and not at all if there are none
ReportedOnce(c, msg, alternates, sep) ==
    LET about == {k \in ReportsOf(msg) : audit_log[k].args[1] = <<c.name[1], c.email[1]>>}
    IN IF alternates = <<>>
       THEN about = {}
       ELSE /\ Cardinality(about) = 1
            /\ \A k \in about : audit_log[k].args[2] = Join(sep, alternates)

\* C7: the audit flags a reconciled record iff it has more than one email or
\* more than one name: it warns iff there is such a record; for each record it
\* reports, against the record's first name and first email, exactly the
\* emails after the first and exactly the names after the first, when there
\* are any; and every report is about a record with alternates.
C7_AuditFlags ==
    Audited =>
        /\ (\E i \in 1..Len(git_contributors) :
               Len(git_contributors[i].email) > 1 \/ Len(git_contributors[i].name) > 1)
           <=> (\E k \in 1..Len(audit_log) : audit_log[k].level = "warning")
        /\ \A i \in 1..Len(git_contributors) :
              LET c == git_contributors[i]
              IN /\ ReportedOnce(c, "has alternate email",
                                 SubSeq(c.email, 2, Len(c.email)), <<",", " ">>)
                 /\ ReportedOnce(c, "has alternate names",
                                 SubSeq(c.name, 2, Len(c.name)), ", ")
        /\ \A k \in ReportsOf("has alternate email") \cup ReportsOf("has alternate names") :
              \E i \in 1..Len(git_contributors) :
                  /\ audit_log[k].args[1] =
                         <<git_contributors[i].name[1], git_contributors[i].email[1]>>
                  /\ Len(git_contributors[i].email) > 1 \/ Len(git_contributors[i].name) > 1

\* C7 witness: an audited register with a record of several emails and one
\* name, reported once, and a record of one email and one name.
C7_Witness ==
    /\ Audited
    /\ \E i \in 1..Len(git_contributors) :
          Len(git_contributors[i].email) > 1 /\ Len(git_contributors[i].name) = 1
    /\ \E i \in 1..Len(git_contributors) :
          Len(git_contributors[i].email) = 1 /\ Len(git_contributors[i].name) = 1
    /\ Cardinality(ReportsOf("has alternate email")) = 1
    /\ ReportsOf("has alternate names") = {}

\* no well-formed line has been read
NothingRead == seen.a = NoneSeen /\ seen.c = NoneSeen

\* C8: as long as the history has shown no well-formed line, the author and
\* committer registers are empty, merge returns an empty register and the
\* audit logs nothing.
C8_EmptyInput ==
    NothingRead =>
        /\ git_authors = <<>>
        /\ git_committers = <<>>
        /\ git_contributors = <<>>
        /\ audit_log = <<>>

\* C8 witness: a run over malformed lines only has merged and audited.
C8_Witness ==
    /\ NothingRead
    /\ nlines > 0
    /\ pc = "done"

\* no record of `reg` holds the case-folded `email` and two distinct records
\* hold `name`: the name-based match claims the email for two identities
Conflict(reg, email, name) ==
    /\ Holders(reg, str_upper(email)) = {}
    /\ Cardinality({i \in 1..Len(reg) : Contains(reg[i].name, name)}) >= 2

\* the step from `reg` to `next` is an update with the identity `id`
\* (name, email, timestamp) read from the history
UpdatedWith(reg, next, id) == next = update(reg, id[2], id[1], id[3], None)

\* C9: an update whose email is claimed by two distinct records through the
\* name-based match is never resolved silently: no step of the scan takes a
\* register to the result of such an update unless IdentityConflictError is
\* raised and the run fails.
C9_ConflictRaises ==
    [][pc = "scan" =>
        \A id \in Identities :
            /\ (Conflict(git_authors, id[2], id[1])
                  /\ UpdatedWith(git_authors, git_authors', id))
               => (raised' = "IdentityConflictError" /\ pc' = "failed")
            /\ (Conflict(git_committers, id[2], id[1])
                  /\ UpdatedWith(git_committers, git_committers', id))
               => (raised' = "IdentityConflictError" /\ pc' = "failed")]_vars

\* some record of `reg` holds the value `x` among its `key` values
Held(reg, key, x) == \E i \in 1..Len(reg) : Contains(reg[i][key], x)

\* `next` is `reg` with one record appended, which holds one case-folded
\* email and one name, neither of them held by a record of `reg`, and no role
AppendedOne(reg, next) ==
    /\ Len(next) = Len(reg) + 1
    /\ \A i \in 1..Len(reg) : next[i] = reg[i]
    /\ LET rec == next[Len(next)]
       IN /\ \E email \in Emails : rec.email = <<str_upper(email)>>
          /\ \E name \in Names : rec.name = <<name>>
          /\ ~Held(reg, "email", rec.email[1])
          /\ ~Held(reg, "name", rec.name[1])
          /\ rec.timestamp \in Timestamps
          /\ rec.role = None

\* `next` is `reg` with at most one record changed, in its place, by values
\* appended to its emails and names and a timestamp no earlier
FoldedOne(reg, next) ==
    /\ Len(next) = Len(reg)
    /\ \E i \in 1..Len(reg) :
          /\ \A j \in 1..Len(reg) : j # i => next[j] = reg[j]
          /\ IsPrefix(reg[i].email, next[i].email)
          /\ IsPrefix(reg[i].name, next[i].name)
          /\ Len(next[i].email) <= Len(reg[i].email) + 1
          /\ Len(next[i].name) <= Len(reg[i].name) + 1
          /\ next[i].timestamp >= reg[i].timestamp
          /\ next[i].role = reg[i].role

\* C11: the update call of a history line changes one record of its
\* register: it appends one record holding the case-folded email and the name
\* alone (when no record held either) or folds into one existing record; all
\* other records and their order stay, and the register grows by at most one.
C11_OneRecordPerUpdate ==
    [][(pc = "scan" /\ nlines' = nlines + 1) =>
        /\ (git_authors' # git_authors =>
              AppendedOne(git_authors, git_authors') \/ FoldedOne(git_authors, git_authors'))
        /\ (git_committers' # git_committers =>
              AppendedOne(git_committers, git_committers')
                 \/ FoldedOne(git_committers, git_committers'))]_vars

\* C11 witness: of two lines by different authors applied by the maintainer,
\* each appended an author record, and the second folded into the one
\* committer record, moving its timestamp.
C11_Witness ==
    /\ nlines = 2
    /\ Len(git_authors) = 2
    /\ git_authors[1].timestamp = 1
    /\ Len(git_committers) = 1
    /\ git_committers[1].timestamp = 2

\* the maximum of two timestamps
MaxTimestamp(a, b) == CHOOSE m \in {a, b} : m >= a /\ m >= b

\* `next` is `reg` after an update under `email` with `timestamp`: the record
\* of `next` that holds the email has the maximum of what it stored and the
\* supplied timestamp (the supplied one if the record is new), and every
\* other record the timestamp it had
TimestampIsLater(reg, next, email, timestamp) ==
    \E i \in Holders(next, str_upper(email)) :
        /\ next[i].timestamp = IF i <= Len(reg)
                               THEN MaxTimestamp(reg[i].timestamp, timestamp)
                               ELSE timestamp
        /\ \A j \in 1..Len(reg) : j # i => next[j].timestamp = reg[j].timestamp

\* no record of `reg` has a later timestamp than it has in `next`
NeverEarlier(reg, next) ==
    \A i \in 1..Len(reg) : i <= Len(next) /\ next[i].timestamp >= reg[i].timestamp

\* C12: a record's timestamp is monotone.  While lines remain, whatever line
\* comes next, the author update and the committer update leave the record
\* they reach with the later of its stored and the supplied timestamp and
\* every other timestamp as it was; and no step of a run moves a timestamp
\* back.  A record's timestamp is hence the maximum over the updates folded
\* into it, in whatever order the lines were scanned.
C12_TimestampMonotone ==
    /\ []((pc = "scan" /\ nlines < MaxLog) =>
            \A a \in Identities :
                /\ TimestampIsLater(git_authors, author_update(git_authors, a \o a),
                                    a[2], a[3])
                /\ TimestampIsLater(git_committers, committer_update(git_committers, a \o a),
                                    a[2], a[3]))
    /\ [][/\ NeverEarlier(git_authors, git_authors')
          /\ NeverEarlier(git_committers, git_committers')]_vars

\* C12 witness: the line with the later timestamp was scanned first (the
\* author records are in creation order), and the committer record both
\* lines folded into holds the later timestamp.
C12_Witness ==
    /\ nlines = 2
    /\ Len(git_authors) = 2
    /\ git_authors[1].timestamp = 2
    /\ git_authors[2].timestamp = 1
    /\ Len(git_committers) = 1
    /\ git_committers[1].timestamp = 2

\* no record of `reg` has been given a role
RoleUnset(reg) == \A i \in 1..Len(reg) : reg[i].role = None

\* no record of `reg` is a record of `other`
SharesNone(reg, other) ==
    \A i \in 1..Len(reg) : \A j \in 1..Len(other) : reg[i] # other[j]

\* C13: the step in which _merge_contributors runs leaves the author and the
\* committer register with the records, record order and field values they
\* had (the roles still unset), and the register it returns holds no record
\* of either.
C13_MergeLeavesInputs ==
    [][(pc = "scan" /\ pc' = "audit") =>
        /\ git_authors' = git_authors
        /\ git_committers' = git_committers
        /\ RoleUnset(git_authors') /\ RoleUnset(git_committers')
        /\ SharesNone(git_contributors', git_authors')
        /\ SharesNone(git_contributors', git_committers')]_vars

\* C13 witness: merge has returned two reconciled records with roles, from
\* two author records (one with an alternate name) and one committer record,
\* all three still without a role.
C13_Witness ==
    /\ pc = "audit"
    /\ Len(git_authors) = 2 /\ Len(git_authors[1].name) = 2
    /\ Len(git_committers) = 1
    /\ RoleUnset(git_authors) /\ RoleUnset(git_committers)
    /\ Len(git_contributors) = 2
    /\ git_contributors[1].role = "git author"
    /\ git_contributors[2].role = "git committer"

\* the records merge reads: those of the author and the committer register
InputNodes == git_authors \o git_committers

\* the values `key` holds after the first one, over all records of `reg`
Alternates(reg, key) ==
    UNION {{reg[i][key][k] : k \in 2..Len(reg[i][key])} : i \in 1..Len(reg)}

\* the first value of `key` of every input record
Firsts(key) == {InputNodes[i][key][1] : i \in 1..Len(InputNodes)}

\* C14: once merged, every email and every name of a reconciled record is
\* the first email, respectively first name, of an author or committer
\* record, so that a value the input registers hold as an alternate only is
\* in no reconciled record; and every reconciled record has the timestamp of
\* an input record whose first email or first name it holds.
C14_CanonicalOnly ==
    Merged =>
        /\ \A i \in 1..Len(git_contributors) :
              /\ \A k \in 1..Len(git_contributors[i].email) :
                    git_contributors[i].email[k] \in Firsts("email")
              /\ \A k \in 1..Len(git_contributors[i].name) :
                    git_contributors[i].name[k] \in Firsts("name")
              /\ \E n \in 1..Len(InputNodes) :
                    /\ InputNodes[n].timestamp = git_contributors[i].timestamp
                    /\ \/ Contains(git_contributors[i].email, InputNodes[n].email[1])
                       \/ Contains(git_contributors[i].name, InputNodes[n].name[1])
        /\ \A key \in {"email", "name"} :
              \A x \in Alternates(InputNodes, key) \ Firsts(key) :
                  ~Held(git_contributors, key, x)

\* C14 witness: an author record gathered the alternate email c@z.com and the
\* alternate name "Alice B.", neither of which is the first of any input
\* record, and merge has returned.
C14_Witness ==
    /\ Merged
    /\ \E i \in 1..Len(git_authors) :
          /\ Len(git_authors[i].email) = 2 /\ git_authors[i].email[2] = str_upper(e_cz)
          /\ Len(git_authors[i].name) = 2 /\ git_authors[i].name[2] = "Alice B."
    /\ str_upper(e_cz) \notin Firsts("email")
    /\ "Alice B." \notin Firsts("name")
    /\ Len(git_contributors) = 2

\* the scan goes on after the step: one more line is consumed and the loop
\* is not left
ScanGoesOn == pc' = "scan" /\ nlines' = nlines + 1 /\ raised' = raised

\* the step a line of other than six fields must take
SkipsLine == ScanGoesOn /\ UNCHANGED <<git_authors, git_committers>>

\* the step a line of six fields must take: one update per register, of the
\* author's and of the committer's identity, with no role
UpdatesOnce(line) ==
    /\ ScanGoesOn
    /\ git_authors' = update(git_authors, line[2], line[1], line[3], None)
    /\ git_committers' = update(git_committers, line[5], line[4], line[6], None)

\* a step after which the identity `a` (name, email, timestamp) is among
\* those read for the author register: only such a step can have read a line
\* by `a`
MayHaveRead(a) ==
    /\ pc = "scan"
    /\ a[1] \in seen'.a.name
    /\ str_upper(a[2]) \in seen'.a.email

\* C15: wherever the scan stands (whatever lines, malformed or not, came
\* before), a step that consumes a line which does not split into six fields
\* updates neither register and does not end the scan, and a step that
\* consumes a line of six fields makes one update of the author register and
\* one of the committer register, both with role unset.
C15_MalformedSkipped ==
    [][/\ \A line \in MalformedLines :
             ScanLine(line, MaxShortLog) => SkipsLine
       /\ \A a \in Identities :
             MayHaveRead(a) =>
                 \A line \in {a \o a, a \o Maintainer(a)} :
                     ScanLine(line, MaxShortLog) => UpdatesOnce(line)]_vars

\* C15 witness: two lines were consumed, of which only the second can have
\* been well-formed (the scan has not ended and one identity was read): each
\* register holds the one record of that line.
C15_Witness ==
    /\ pc = "scan"
    /\ nlines = 2
    /\ Cardinality(seen.a.email) = 1 /\ Cardinality(seen.a.name) = 1
    /\ Len(git_authors) = 1 /\ Len(git_authors[1].name) = 1
    /\ git_authors[1].name[1] = "Alice"
    /\ Len(git_committers) = 1 /\ git_committers[1].name[1] = "Bob"
    /\ git_authors[1].timestamp = 2

\* the path starts with "http" or "git@"
AcceptedPrefix(p) == startswith(p, s_http) \/ startswith(p, s_git_at)

\* `s` without the slashes and backslashes it begins with
RECURSIVE SkipSlashes(_)
SkipSlashes(s) ==
    IF s # <<>> /\ Head(s) \in {"/", "\\"} THEN SkipSlashes(Tail(s)) ELSE s

\* the host a path names, in lower case: what follows "git@", or the colon
\* and slashes of a URL, up to the next separator
HostOf(p) ==
    LET rest == IF startswith(p, s_git_at)
                THEN SubSeq(p, Len(s_git_at) + 1, Len(p))
                ELSE SkipSlashes(SubSeq(p, FirstOf(p, {":"}) + 1, Len(p)))
        end == FirstOf(rest, {"/", "\\", ":", "?", "#"})
    IN str_lower(IF end = 0 THEN rest ELSE SubSeq(rest, 1, end - 1))

\* the provider the host of a path belongs to, None if it is no provider's
ProviderOf(p) ==
    IF HostOf(p) = s_github_com THEN "github"
    ELSE IF HostOf(p) = s_gitlab_com THEN "gitlab"
    ELSE None

\* _fetch_repo_metadata has decided where the path goes
Decided == hub_pc \in {"github", "gitlab", "fetched", "done", "failed"}

\* C16: fatal inputs abort the harvest with an error and no pair is returned.
\* A missing git executable fails the construction of the git plugin with
\* RuntimeError.  In the hosted plugin a path that starts with neither "http"
\* nor "git@", or whose host is neither github.com nor gitlab.com, reaches no
\* provider: no request is sent, nothing is returned, and the call fails with
\* ValueError.  A path with an accepted prefix ("git@" included) and the host
\* of a provider is handed to that provider's fetch.
C16_FatalInputs ==
    /\ pc = "failed" => raised = "RuntimeError" /\ git_contributors = <<>>
    /\ (hub_pc # "idle" /\ (~AcceptedPrefix(arg_path) \/ ProviderOf(arg_path) = None)) =>
          /\ requests = 0 /\ provider = None /\ returned = None
          /\ hub_pc \in {"normalize", "fetch", "failed"}
          /\ hub_pc = "failed" => hub_raised = "ValueError"
    /\ (Decided /\ AcceptedPrefix(arg_path) /\ ProviderOf(arg_path) # None) =>
          provider = ProviderOf(arg_path)

\* C18: the commit-page loop of get_contributors_from_repo terminates
\* whatever the provider answers: it never requests more than 10 pages; a
\* request that adds no commits (an empty page, a status other than 200, an
\* undecodable body) is the last one; the loop is left for a return with the
\* empty list when the page failed, whatever was collected; and once the
\* loop is left no page is requested.
C18_PageLoopTerminates ==
    /\ [](page_requests <= 10)
    /\ [][/\ (page_pc = "loop" /\ page_requests' = page_requests + 1
                 /\ all_commits' = all_commits)
              => page_pc' \in {"build", "returned"}
          /\ (page_pc = "loop" /\ page_pc' = "returned") => contributors' = <<>>
          /\ page_pc \in {"build", "returned"} => page_requests' = page_requests]_vars

\* from `reg` to `next` an update under `email` and `name` with `timestamp`
\* was made; if it folded into a record whose stored timestamp cannot be
\* compared with `timestamp`, that record kept its timestamp and holds the
\* email and the name, and no record was added
KeepsOnMismatch(reg, next, email, name, timestamp) ==
    \A i \in Holders(reg, str_upper(email)) :
        ~Comparable(reg[i].timestamp, timestamp) =>
            /\ Len(next) = Len(reg)
            /\ next[i].timestamp = reg[i].timestamp
            /\ Contains(next[i].email, str_upper(email))
            /\ Contains(next[i].name, name)

\* C17: a step of the scan that folds a line into a record whose stored
\* timestamp cannot be compared with the supplied one raises nothing: the
\* record keeps the stored timestamp, the name and email of the line are in
\* it, and the scan goes on with the next line.
C17_MismatchKeepsTimestamp ==
    [][\A line \in MixedLines :
          ScanLine(line, MaxLog) =>
              /\ KeepsOnMismatch(git_authors, git_authors', line[2], line[1], line[3])
              /\ KeepsOnMismatch(git_committers, git_committers', line[5], line[4], line[6])
              /\ pc' = "scan" /\ raised' = None]_vars

\* C17 witness: a record created with a malformed timestamp was updated
\* under a second name (all lines under that name have a well-formed
\* timestamp or fold into this record) and kept the timestamp, and a third
\* line was processed.
C17_Witness ==
    /\ pc = "scan"
    /\ nlines = 3
    /\ Len(git_authors) = 1
    /\ git_authors[1].name = <<"Alice", "Alice B.">>
    /\ git_authors[1].timestamp = t_malformed
    /\ raised = None

====
